---- MODULE Spec2Model ----
(***************************************************************************)
(* Model of the devcontainer command-line tool (src/main.rs).              *)
(*                                                                         *)
(* One process run is: main collects argv, loads                           *)
(* .devcontainer/devcontainer.toml, dispatches on argv[1] to a handler,    *)
(* the handler assembles one docker command, echoes it, spawns it with     *)
(* Command::status(), waits, and the process ends with an exit code.       *)
(* Spec is one such run.  The configuration file is the only state that   *)
(* outlives a run, so SpecRerun lets the tool be invoked again on the same *)
(* file with the same argv and keeps what the earlier runs launched.       *)
(***************************************************************************)
EXTENDS Integers, Sequences, FiniteSets, TLC

VARIABLES
    file,       \* .devcontainer/devcontainer.toml on disk
    args,       \* env::args(): program name followed by the arguments
    pc,         \* "main" | "dispatch" | "waiting" | "exited"
    cfg,        \* Option<DevcontainerConfig> held by main
    calls,      \* functions entered in this run, in call order
    cmd,        \* Option<argv> of the Command handed to status()
    launched,   \* argument vectors of the child processes spawned in this run
    status,     \* Option<io::Result<ExitStatus>>: what cmd.status() returned
    exitCode,   \* Option<exit code of this process>
    out,        \* lines written to stdout
    err,        \* lines written to stderr
    run,        \* number of the current invocation
    history     \* per earlier invocation: the argument vectors it launched

vars ==
    <<file, args, pc, cfg, calls, cmd, launched, status, exitCode, out, err, run, history>>

-----------------------------------------------------------------------------
(* Bounds of the model.                                                    *)

MaxBuildArgs == 2   \* entries of [build.args]
MaxFiles     == 2   \* entries of compose.files
MaxRunArgs   == 1   \* entries of run.run_args
MaxPorts     == 2   \* ports.app and ports.forward entries together
MaxVolumes   == 2   \* entries of [volumes]
MaxTrailing  == 2   \* arguments after the subcommand
MaxExitCode  == 2   \* largest exit code the external tool returns
MaxRuns      == 2   \* invocations of the tool on the same file

-----------------------------------------------------------------------------
(* Option<T>: None is the empty sequence, Some(x) the one-element one.     *)

None == <<>>
Some(x) == <<x>>
IsSome(o) == Len(o) = 1
Unwrap(o) == o[1]

(* Sequences over S of length at most n without repeated elements.         *)
DistinctSeqs(S, n) ==
    UNION { { s \in [1..k -> S] : \A i, j \in 1..k : s[i] = s[j] => i = j } : k \in 0..n }

(* Sequences over S of length at most n.                                   *)
BoundedSeqs(S, n) == UNION { [1..k -> S] : k \in 0..n }

RECURSIVE Flatten(_)
Flatten(ss) == IF ss = <<>> THEN <<>> ELSE Head(ss) \o Flatten(Tail(ss))

-----------------------------------------------------------------------------
(* The configuration schema (the Deserialize structs).                     *)

ImageConfigs == { [name |-> "img"] }

ArgKeys == { "K" \o ToString(i) : i \in 1..MaxBuildArgs }

BuildConfigs ==
    { [name |-> "tag", dockerfile |-> "Dockerfile", context |-> ".",
       target |-> t, args |-> a] :
        t \in {None, Some("dev")},
        a \in UNION { [K -> {"1"}] : K \in SUBSET ArgKeys } }

FileNames == { "f" \o ToString(i) \o ".yml" : i \in 1..MaxFiles }

ComposeConfigs ==
    { [files |-> f, service |-> s, workspace_folder |-> None,
       shutdown_action |-> None, override_command |-> None] :
        f \in DistinctSeqs(FileNames, MaxFiles),
        s \in {None, Some("web")} }

RunConfigs ==
    { [workdir |-> "/w", user |-> u, run_args |-> r] :
        u \in {None, Some("dev")},
        r \in BoundedSeqs({"--rm"}, MaxRunArgs) }

PortNumbers == {8080, 80}

PortsConfigs ==
    { [app |-> a, forward |-> f] :
        a \in DistinctSeqs(PortNumbers, MaxPorts),
        f \in DistinctSeqs(PortNumbers, MaxPorts) }

VolumeNames == { "v" \o ToString(i) : i \in 1..MaxVolumes }

VolumeMounts(n) ==
    { [host |-> "/h/" \o n, container |-> "/c/" \o n, mode |-> m] :
        m \in {None, Some("ro")} }

VolumeMaps ==
    UNION { { v \in [K -> UNION { VolumeMounts(n) : n \in K }] :
                \A n \in K : v[n] \in VolumeMounts(n) } : K \in SUBSET VolumeNames }

Opt(S) == {None} \cup { Some(x) : x \in S }

(* The [image]/[build]/[compose] sections, every combination.              *)
KindSections ==
    { [image |-> i, build |-> b, compose |-> c] :
        i \in Opt(ImageConfigs), b \in Opt(BuildConfigs), c \in Opt(ComposeConfigs) }

(* The [run]/[ports]/[volumes] sections, every combination within MaxPorts. *)
RunSections ==
    { [run |-> r, ports |-> p, volumes |-> v] :
        r \in Opt(RunConfigs),
        p \in Opt({ q \in PortsConfigs : Len(q.app) + Len(q.forward) <= MaxPorts }),
        v \in VolumeMaps }

NoRunSection == [run |-> None, ports |-> None, volumes |-> << >>]

FullRunSection ==
    [run |-> Some([workdir |-> "/w", user |-> Some("dev"), run_args |-> <<"--rm">>]),
     ports |-> Some([app |-> <<8080>>, forward |-> <<80>>]),
     volumes |-> [n \in {"v1"} |-> [host |-> "/h/v1", container |-> "/c/v1", mode |-> None]]]

PlainBuild ==
    [name |-> "tag", dockerfile |-> "Dockerfile", context |-> ".",
     target |-> None, args |-> << >>]

Table(nm, k, r) ==
    [name |-> nm, image |-> k.image, build |-> k.build, compose |-> k.compose,
     run |-> r.run, ports |-> r.ports, volumes |-> r.volumes]

(* The TOML documents the model enumerates: every combination of kind     *)
(* sections with the run-time sections absent or populated, and every     *)
(* combination of run-time sections for an image-only and a build-only    *)
(* configuration; plus one document that lacks the required key `name`.   *)
Tables ==
    { Table(Some("dev"), k, r) : k \in KindSections, r \in {NoRunSection, FullRunSection} }
    \cup
    { Table(Some("dev"), k, r) :
        k \in { [image |-> Some([name |-> "img"]), build |-> None, compose |-> None],
                [image |-> None, build |-> Some(PlainBuild), compose |-> None] },
        r \in RunSections }
    \cup
    { Table(None, [image |-> Some([name |-> "img"]), build |-> None, compose |-> None],
            NoRunSection) }

DefaultTable ==
    Table(Some("dev"), [image |-> Some([name |-> "img"]), build |-> None, compose |-> None],
          NoRunSection)

(* The file: absent/unreadable, not TOML, or a TOML table.                 *)
Files ==
    { [readable |-> FALSE, toml |-> TRUE, table |-> DefaultTable],
      [readable |-> TRUE, toml |-> FALSE, table |-> DefaultTable] }
    \cup { [readable |-> TRUE, toml |-> TRUE, table |-> t] : t \in Tables }

Subcommands == {"build", "up", "exec", "stop", "down", "read"}
HelpFlags == {"-h", "--help", "help"}

(* The trailing arguments: the first words of `ls -l -a /tmp`.            *)
TrailingWords == <<"ls", "-l", "-a", "/tmp">>

ArgVectors ==
    { <<>>, <<"devcontainer">> }
    \cup { <<"devcontainer", a>> : a \in HelpFlags \cup {"bogus"} }
    \cup { <<"devcontainer", s>> \o SubSeq(TrailingWords, 1, k) :
            s \in Subcommands, k \in 0..MaxTrailing }

-----------------------------------------------------------------------------
(* load_config: read the file, then deserialize it.                       *)

Ok(v) == [ok |-> TRUE, val |-> v]
Err(e) == [ok |-> FALSE, val |-> e]

(* a deserializer that accepts text that is not TOML                       *)
Deserialize_mut(f) ==
    IF ~IsSome(f.table.name) THEN Err("parse")
    ELSE Ok([f.table EXCEPT !.name = Unwrap(f.table.name)])

Deserialize(f) ==
    IF ~f.toml THEN Err("parse")
    ELSE IF ~IsSome(f.table.name) THEN Err("parse")
    ELSE Ok([f.table EXCEPT !.name = Unwrap(f.table.name)])

load_config(f) ==
    IF ~f.readable THEN Err("read") ELSE Deserialize(f)

-----------------------------------------------------------------------------
(* Iteration over a HashMap: the order is fixed by the per-process hash    *)
(* seed, so an iteration visits the keys in some order, any order.         *)

IterOrders(m) ==
    { s \in [1..Cardinality(DOMAIN m) -> DOMAIN m] :
        \A i, j \in DOMAIN s : s[i] = s[j] => i = j }

(* kind_count that leaves [compose] out of the sum                        *)
kind_count_mut(c) ==
    (IF IsSome(c.image) THEN 1 ELSE 0) + (IF IsSome(c.build) THEN 1 ELSE 0)

(* `cfg.image.is_some() as u8 + cfg.build.is_some() as u8 + ...`           *)
kind_count(c) ==
    (IF IsSome(c.image) THEN 1 ELSE 0)
    + (IF IsSome(c.build) THEN 1 ELSE 0)
    + (IF IsSome(c.compose) THEN 1 ELSE 0)

(* `for file in &cfg.files { cmd.arg("-f").arg(file); }`                   *)
FileFlags(files) == Flatten([i \in 1..Len(files) |-> <<"-f", files[i]>>])

(* "sh" pushed unconditionally, the trailing arguments after it           *)
ExecTail_mut(trailing) == <<"sh">> \o trailing

(* `if args.is_empty() { cmd.arg("sh") } else { for arg in args {..} }`    *)
ExecTail(trailing) == IF trailing = <<>> THEN <<"sh">> ELSE trailing

(* format!("{k}={v}")                                                      *)
BuildArg(k, v) == k \o "=" \o v

(* the mode left out when the mount has none                               *)
VolumeSpec_mut(mount) ==
    IF IsSome(mount.mode)
    THEN mount.host \o ":" \o mount.container \o ":" \o Unwrap(mount.mode)
    ELSE mount.host \o ":" \o mount.container

(* format!("{}:{}:{}", mount.host, mount.container, mode)                  *)
VolumeSpec(mount) ==
    LET mode == IF IsSome(mount.mode) THEN Unwrap(mount.mode) ELSE "rw"
    IN  mount.host \o ":" \o mount.container \o ":" \o mode

(* format!("{p}:{p}", p = port)                                            *)
PortMapping(port) == ToString(port) \o ":" \o ToString(port)

PortFlags(ports) == Flatten([i \in 1..Len(ports) |-> <<"-p", PortMapping(ports[i])>>])

(* The Command each run_* function assembles: program, then arguments.     *)

ImageBuildCmd(image) == <<"docker", "pull", image.name>>

(* the context path pushed before the --build-arg pairs                   *)
DockerBuildCmd_mut(build, order) ==
    <<"docker", "build", "-f", build.dockerfile, "-t", build.name>>
    \o (IF IsSome(build.target) THEN <<"--target", Unwrap(build.target)>> ELSE <<>>)
    \o <<build.context>>
    \o Flatten([i \in 1..Len(order) |->
                  <<"--build-arg", BuildArg(order[i], build.args[order[i]])>>])

DockerBuildCmd(build, order) ==
    <<"docker", "build", "-f", build.dockerfile, "-t", build.name>>
    \o (IF IsSome(build.target) THEN <<"--target", Unwrap(build.target)>> ELSE <<>>)
    \o Flatten([i \in 1..Len(order) |->
                  <<"--build-arg", BuildArg(order[i], build.args[order[i]])>>])
    \o <<build.context>>

ComposeBuildCmd(compose) ==
    <<"docker", "compose">> \o FileFlags(compose.files) \o <<"build">>

(* `let image_name = if let Some(image_cfg) ... else unreachable!()`       *)
ImageName(c) ==
    IF IsSome(c.image) THEN Some(Unwrap(c.image).name)
    ELSE IF IsSome(c.build) THEN Some(Unwrap(c.build).name)
    ELSE None

ContainerUpCmd(c, order) ==
    <<"docker", "run", "-d", "--name", c.name>>
    \o (IF IsSome(c.run)
        THEN LET run_cfg == Unwrap(c.run)
             IN  (IF IsSome(run_cfg.user) THEN <<"--user", Unwrap(run_cfg.user)>> ELSE <<>>)
                 \o <<"--workdir", run_cfg.workdir>>
                 \o run_cfg.run_args
        ELSE <<>>)
    \o Flatten([i \in 1..Len(order) |-> <<"-v", VolumeSpec(c.volumes[order[i]])>>])
    \o (IF IsSome(c.ports)
        THEN PortFlags(Unwrap(c.ports).app) \o PortFlags(Unwrap(c.ports).forward)
        ELSE <<>>)
    \o <<Unwrap(ImageName(c))>>

ComposeUpCmd(compose) ==
    <<"docker", "compose">> \o FileFlags(compose.files) \o <<"up", "-d">>
    \o (IF IsSome(compose.service) THEN <<Unwrap(compose.service)>> ELSE <<>>)

ContainerExecCmd(trailing, c) ==
    <<"docker", "exec", "-it", c.name>> \o ExecTail(trailing)

ComposeExecCmd(trailing, compose) ==
    <<"docker", "compose">> \o FileFlags(compose.files) \o <<"exec", "-it">>
    \o <<Unwrap(compose.service)>> \o ExecTail(trailing)

ContainerStopCmd(c) == <<"docker", "stop", c.name>>

ComposeStopCmd(compose) ==
    <<"docker", "compose">> \o FileFlags(compose.files) \o <<"stop">>

ContainerDownCmd(c) == <<"docker", "rm", "-f", c.name>>

ComposeDownCmd(compose) ==
    <<"docker", "compose">> \o FileFlags(compose.files) \o <<"down">>

-----------------------------------------------------------------------------
(* std::process::ExitStatus of the external tool: an exit code, or none    *)
(* when the tool was ended by a signal.                                    *)

ExitStatuses == { [code |-> c] : c \in Opt(0..MaxExitCode) }

Success(st) == st.code = Some(0)

(* process::exit(1) whatever the child's code                              *)
FailureExitCode_mut(st) == 1

(* `process::exit(status.code().unwrap_or(1))`                             *)
FailureExitCode(st) == IF IsSome(st.code) THEN Unwrap(st.code) ELSE 1

PanicExitCode == 101

Line(kind, c) == [kind |-> kind, cmd |-> c]

-----------------------------------------------------------------------------
Init ==
    /\ file \in Files
    /\ args \in ArgVectors
    /\ pc = "main"
    /\ cfg = None
    /\ calls = <<"main">>
    /\ cmd = None
    /\ launched = <<>>
    /\ status = None
    /\ exitCode = None
    /\ out = <<>>
    /\ err = <<>>
    /\ run = 1
    /\ history = <<>>

(* process::exit(code), after `msg` went to stderr                         *)
Exit(msg, code) ==
    /\ err' = Append(err, msg)
    /\ pc' = "exited"
    /\ exitCode' = Some(code)

(* main returns                                                            *)
Return ==
    /\ pc' = "exited"
    /\ exitCode' = Some(0)
    /\ err' = err

(* The common tail of every run_* function up to the spawn inside          *)
(* cmd.status(): echo the command, then either the spawn fails and the     *)
(* process exits 1, or the child runs and the process waits for it.        *)
Status(fns, c) ==
    /\ calls' = calls \o fns
    /\ cmd' = Some(c)
    /\ out' = Append(out, Line("running", c))
    /\ \/ /\ Exit("Failed to execute", 1)
          /\ status' = Some(Err("spawn"))
          /\ launched' = launched
       \/ /\ launched' = Append(launched, c)
          /\ pc' = "waiting"
          /\ UNCHANGED <<status, err, exitCode>>

(* main, up to the result of load_config                                   *)
LoadConfig ==
    /\ pc = "main"
    /\ LET r == load_config(file)
       IN  IF r.ok
           THEN /\ cfg' = Some(r.val)
                /\ pc' = "dispatch"
                /\ UNCHANGED <<err, exitCode>>
           ELSE /\ cfg' = cfg
                /\ Exit("devcontainer: Failed to read", 1)
    /\ calls' = Append(calls, "load_config")
    /\ UNCHANGED <<file, args, cmd, launched, status, out, run, history>>

(* `if args.len() <= 1` and the "-h" | "--help" | "help" arm               *)
Help ==
    /\ pc = "dispatch"
    /\ \/ Len(args) <= 1
       \/ Len(args) > 1 /\ args[2] \in HelpFlags
    /\ calls' = Append(calls, "print_help")
    /\ out' = Append(out, Line("help", <<>>))
    /\ Return
    /\ UNCHANGED <<file, args, cfg, cmd, launched, status, run, history>>

(* the `other` arm without its process::exit(1): main returns              *)
Unknown_mut ==
    /\ pc = "dispatch"
    /\ Len(args) > 1
    /\ args[2] \notin HelpFlags \cup Subcommands
    /\ err' = Append(err, "devcontainer: unknown command or option")
    /\ pc' = "exited"
    /\ exitCode' = Some(0)
    /\ UNCHANGED <<file, args, cfg, calls, cmd, launched, status, out, run, history>>

(* the `other` arm                                                         *)
Unknown ==
    /\ pc = "dispatch"
    /\ Len(args) > 1
    /\ args[2] \notin HelpFlags \cup Subcommands
    /\ Exit("devcontainer: unknown command or option", 1)
    /\ UNCHANGED <<file, args, cfg, calls, cmd, launched, status, out, run, history>>

Dispatched(sub) == pc = "dispatch" /\ Len(args) > 1 /\ args[2] = sub

Trailing == SubSeq(args, 3, Len(args))

Config == Unwrap(cfg)

HandleBuild ==
    /\ Dispatched("build")
    /\ LET c == Config
       IN  IF kind_count(c) = 0
           THEN /\ Exit("devcontainer build: no container kind specified", 1)
                /\ calls' = Append(calls, "handle_build")
                /\ UNCHANGED <<cmd, launched, status, out>>
           ELSE IF kind_count(c) > 1
           THEN /\ Exit("devcontainer build: multiple container kinds specified", 1)
                /\ calls' = Append(calls, "handle_build")
                /\ UNCHANGED <<cmd, launched, status, out>>
           ELSE IF IsSome(c.image)
           THEN Status(<<"handle_build", "run_image_build">>, ImageBuildCmd(Unwrap(c.image)))
           ELSE IF IsSome(c.build)
           THEN \E order \in IterOrders(Unwrap(c.build).args) :
                    Status(<<"handle_build", "run_docker_build">>,
                           DockerBuildCmd(Unwrap(c.build), order))
           ELSE IF IsSome(c.compose)
           THEN Status(<<"handle_build", "run_compose_build">>,
                       ComposeBuildCmd(Unwrap(c.compose)))
           ELSE /\ calls' = Append(calls, "handle_build")
                /\ Return
                /\ UNCHANGED <<cmd, launched, status, out>>
    /\ UNCHANGED <<file, args, cfg, run, history>>

HandleUp ==
    /\ Dispatched("up")
    /\ LET c == Config
       IN  IF kind_count(c) = 0
           THEN /\ Exit("devcontainer build: no container kind specified", 1)
                /\ calls' = Append(calls, "handle_up")
                /\ UNCHANGED <<cmd, launched, status, out>>
           ELSE IF kind_count(c) > 1
           THEN /\ Exit("devcontainer build: multiple container kinds specified", 1)
                /\ calls' = Append(calls, "handle_up")
                /\ UNCHANGED <<cmd, launched, status, out>>
           ELSE IF IsSome(c.compose)
           THEN Status(<<"handle_up", "run_compose_up">>, ComposeUpCmd(Unwrap(c.compose)))
           ELSE IF IsSome(ImageName(c))
           THEN \E order \in IterOrders(c.volumes) :
                    Status(<<"handle_up", "run_container_up">>, ContainerUpCmd(c, order))
           ELSE /\ Exit("internal error: entered unreachable code", PanicExitCode)
                /\ calls' = calls \o <<"handle_up", "run_container_up">>
                /\ UNCHANGED <<cmd, launched, status, out>>
    /\ UNCHANGED <<file, args, cfg, run, history>>

HandleExec ==
    /\ Dispatched("exec")
    /\ LET c == Config
       IN  IF IsSome(c.compose)
           THEN IF IsSome(Unwrap(c.compose).service)
                THEN Status(<<"handle_exec", "run_compose_exec">>,
                            ComposeExecCmd(Trailing, Unwrap(c.compose)))
                ELSE /\ Exit("devcontainer exec: [compose].service is required", 1)
                     /\ calls' = calls \o <<"handle_exec", "run_compose_exec">>
                     /\ UNCHANGED <<cmd, launched, status, out>>
           ELSE Status(<<"handle_exec", "run_container_exec">>, ContainerExecCmd(Trailing, c))
    /\ UNCHANGED <<file, args, cfg, run, history>>

(* handle_stop with the kind check of handle_up in front                  *)
HandleStop_mut ==
    /\ Dispatched("stop")
    /\ LET c == Config
       IN  IF kind_count(c) # 1
           THEN /\ Exit("devcontainer stop: exactly one container kind expected", 1)
                /\ calls' = Append(calls, "handle_stop")
                /\ UNCHANGED <<cmd, launched, status, out>>
           ELSE IF IsSome(c.compose)
           THEN Status(<<"handle_stop", "run_compose_stop">>, ComposeStopCmd(Unwrap(c.compose)))
           ELSE Status(<<"handle_stop", "run_container_stop">>, ContainerStopCmd(c))
    /\ UNCHANGED <<file, args, cfg, run, history>>

HandleStop ==
    /\ Dispatched("stop")
    /\ LET c == Config
       IN  IF IsSome(c.compose)
           THEN Status(<<"handle_stop", "run_compose_stop">>, ComposeStopCmd(Unwrap(c.compose)))
           ELSE Status(<<"handle_stop", "run_container_stop">>, ContainerStopCmd(c))
    /\ UNCHANGED <<file, args, cfg, run, history>>

HandleDown ==
    /\ Dispatched("down")
    /\ LET c == Config
       IN  IF IsSome(c.compose)
           THEN Status(<<"handle_down", "run_compose_down">>, ComposeDownCmd(Unwrap(c.compose)))
           ELSE Status(<<"handle_down", "run_container_down">>, ContainerDownCmd(c))
    /\ UNCHANGED <<file, args, cfg, run, history>>

(* handle_read with the kind check of handle_build in front               *)
HandleRead_mut ==
    /\ Dispatched("read")
    /\ calls' = Append(calls, "handle_read")
    /\ IF kind_count(Config) # 1
       THEN /\ Exit("devcontainer read: exactly one container kind expected", 1)
            /\ out' = out
       ELSE /\ out' = Append(out, Line("config", <<>>))
            /\ Return
    /\ UNCHANGED <<file, args, cfg, cmd, launched, status, run, history>>

(* println!("{:#?}", cfg), then main returns                               *)
HandleRead ==
    /\ Dispatched("read")
    /\ calls' = Append(calls, "handle_read")
    /\ out' = Append(out, Line("config", <<>>))
    /\ Return
    /\ UNCHANGED <<file, args, cfg, cmd, launched, status, run, history>>

(* cmd.status() returns Ok(status): the child has ended.  On success the   *)
(* run_* function, the handler and main return; otherwise the process      *)
(* exits with the child's code, or 1 when there is none.                   *)
ChildExit ==
    /\ pc = "waiting"
    /\ \E st \in ExitStatuses :
          /\ status' = Some(Ok(st))
          /\ IF Success(st)
             THEN Return
             ELSE Exit("failed with status", FailureExitCode(st))
    /\ UNCHANGED <<file, args, cfg, calls, cmd, launched, out, run, history>>

(* The tool is invoked again, same directory, same command line.           *)
Rerun ==
    /\ pc = "exited"
    /\ run < MaxRuns
    /\ run' = run + 1
    /\ history' = Append(history, launched)
    /\ pc' = "main"
    /\ cfg' = None
    /\ calls' = <<"main">>
    /\ cmd' = None
    /\ launched' = <<>>
    /\ status' = None
    /\ exitCode' = None
    /\ out' = <<>>
    /\ err' = <<>>
    /\ UNCHANGED <<file, args>>

Next ==
    \/ LoadConfig
    \/ Help
    \/ Unknown
    \/ HandleBuild
    \/ HandleUp
    \/ HandleExec
    \/ HandleStop
    \/ HandleDown
    \/ HandleRead
    \/ ChildExit

Spec == Init /\ [][Next]_vars

NextRerun ==
    \/ Next
    \/ Rerun

SpecRerun == Init /\ [][NextRerun]_vars

-----------------------------------------------------------------------------
(* Vocabulary of the properties, stated on the observable run: the file,   *)
(* the command line, what was launched and the exit code.  The expected    *)
(* argument vectors are written out position by position.                  *)

Loaded == IsSome(cfg)
Sub == IF Len(args) > 1 THEN args[2] ELSE ""
Exited == pc = "exited"
Spawning == pc \in {"waiting", "exited"}
NothingLaunched == launched = <<>> /\ cmd = None /\ status = None

KindsSet(c) == { k \in {"image", "build", "compose"} : c[k] # None }

(* flag x1 flag x2 ... for the elements of xs, in the order of xs          *)
Interleave(flag, xs) ==
    [i \in 1..(2 * Len(xs)) |-> IF i % 2 = 1 THEN flag ELSE xs[i \div 2]]

Orderings(m) ==
    { s \in [1..Cardinality(DOMAIN m) -> DOMAIN m] :
        \A k \in DOMAIN m : \E i \in DOMAIN s : s[i] = k }

HandlerNames ==
    {"print_help", "handle_build", "handle_up", "handle_exec", "handle_stop",
     "handle_down", "handle_read"}

Called(fn) == \E i \in DOMAIN calls : calls[i] = fn

(* C1: with zero or several container kinds set, build and up end with     *)
(* exit code 1 and launch no external process at any point of the run.     *)
C1_BadKindCountExitsOne ==
    (Loaded /\ Sub \in {"build", "up"} /\ Cardinality(KindsSet(Config)) # 1)
        => /\ NothingLaunched
           /\ pc # "waiting"
           /\ Exited => exitCode = Some(1)

C1_Witness ==
    /\ Exited /\ Loaded /\ Sub = "up"
    /\ Cardinality(KindsSet(Config)) = 2
    /\ Called("handle_up")
    /\ exitCode = Some(1)

(* C2: the process's exit code is the tool's exit code N when the tool     *)
(* ends with N (0 included), and 1 when the tool ends without an exit code *)
(* or cannot be launched; for build, up, exec, stop and down.              *)
C2_ExitCodePropagated ==
    (Exited /\ IsSome(status))
        => /\ Sub \in {"build", "up", "exec", "stop", "down"}
           /\ LET r == Unwrap(status)
              IN  IF ~r.ok THEN exitCode = Some(1) /\ launched = <<>>
                  ELSE IF r.val.code = None THEN exitCode = Some(1)
                  ELSE exitCode = r.val.code

C2_Witness ==
    /\ Exited /\ Sub = "down"
    /\ IsSome(status) /\ Unwrap(status).ok
    /\ Unwrap(status).val.code = Some(2)
    /\ exitCode = Some(2)

(* C3: when the configuration file is unreadable or does not parse, the    *)
(* process exits with code 1, no handler runs and nothing is launched,     *)
(* whatever the command line; handlers only ever run on a loaded config.   *)
C3_LoadBeforeDispatch ==
    /\ (~file.readable \/ ~file.toml \/ file.table.name = None)
          => /\ NothingLaunched
             /\ ~Loaded
             /\ pc \in {"main", "exited"}
             /\ \A fn \in HandlerNames : ~Called(fn)
             /\ out = <<>>
             /\ Exited => exitCode = Some(1)
    /\ (pc \in {"dispatch", "waiting"} \/ \E fn \in HandlerNames : Called(fn))
          => Loaded /\ Called("load_config")

C3_Witness ==
    /\ Exited /\ Sub = "build"
    /\ file.readable /\ ~file.toml
    /\ exitCode = Some(1)
    /\ calls = <<"main", "load_config">>

(* C4 as stated: no arguments prints help and exits 0; an unrecognized     *)
(* first argument prints an error and exits 1; nothing is launched.        *)
C4_AsStated ==
    /\ (Exited /\ Len(args) <= 1)
          => /\ exitCode = Some(0)
             /\ out = <<Line("help", <<>>)>>
             /\ NothingLaunched
    /\ (Exited /\ Len(args) > 1
          /\ args[2] \notin {"build", "up", "exec", "stop", "down", "read",
                             "-h", "--help", "help"})
          => /\ exitCode = Some(1)
             /\ err # <<>>
             /\ NothingLaunched

(* C4 amended: the same, for a configuration file that loads; when the     *)
(* file does not load, both invocations end with exit code 1, print the    *)
(* load error and no help.  Nothing is launched in any of these cases.     *)
C4_HelpAndUnknown ==
    /\ (Exited /\ Len(args) <= 1)
          => /\ NothingLaunched
             /\ IF Loaded
                THEN exitCode = Some(0) /\ out = <<Line("help", <<>>)>> /\ err = <<>>
                ELSE exitCode = Some(1) /\ out = <<>>
                     /\ err = <<"devcontainer: Failed to read">>
    /\ (Exited /\ Len(args) > 1
          /\ args[2] \notin {"build", "up", "exec", "stop", "down", "read",
                             "-h", "--help", "help"})
          => /\ NothingLaunched
             /\ exitCode = Some(1)
             /\ out = <<>>
             /\ IF Loaded
                THEN err = <<"devcontainer: unknown command or option">>
                ELSE err = <<"devcontainer: Failed to read">>

C4_Witness ==
    /\ Exited /\ Loaded
    /\ args = <<"devcontainer", "bogus">>
    /\ exitCode = Some(1)
    /\ err = <<"devcontainer: unknown command or option">>

(* C5: exec on a compose configuration without a service name exits 1 and  *)
(* launches nothing; with a service name it runs docker compose, -f <file> *)
(* per compose file in list order, exec -it <service>, then the trailing   *)
(* arguments in order, or sh when there are none.                          *)
C5_Expected(compose, trailing) ==
    <<"docker", "compose">> \o Interleave("-f", compose.files)
    \o <<"exec", "-it", compose.service[1]>>
    \o (IF Len(trailing) = 0 THEN <<"sh">> ELSE trailing)

C5_ComposeExec ==
    (Loaded /\ Sub = "exec" /\ Config.compose # None)
        => IF Config.compose[1].service = None
           THEN /\ NothingLaunched
                /\ pc # "waiting"
                /\ Exited => exitCode = Some(1)
           ELSE /\ Spawning
                   => cmd = Some(C5_Expected(Config.compose[1], SubSeq(args, 3, Len(args))))
                /\ launched = <<>> \/ launched = <<Unwrap(cmd)>>
                /\ pc = "waiting" => Len(launched) = 1

C5_Witness ==
    /\ pc = "waiting" /\ Sub = "exec"
    /\ Config.compose # None
    /\ Len(Config.compose[1].files) = 2
    /\ SubSeq(args, 3, Len(args)) = <<"ls", "-l">>
    /\ launched = <<<<"docker", "compose", "-f", "f2.yml", "-f", "f1.yml",
                      "exec", "-it", "web", "ls", "-l">>>>

(* C6: read launches nothing and ends with exit code 0 for every           *)
(* configuration that loads, whatever the number of kinds set.             *)
C6_ReadLaunchesNothing ==
    (Loaded /\ Sub = "read")
        => /\ NothingLaunched
           /\ pc # "waiting"
           /\ Exited => exitCode = Some(0) /\ out = <<Line("config", <<>>)>>

C6_Witness ==
    /\ Exited /\ Loaded /\ Sub = "read"
    /\ Cardinality(KindsSet(Config)) = 3
    /\ Called("handle_read")
    /\ exitCode = Some(0)

(* C7: for an image-only or build-only configuration, up runs              *)
(* docker run -d --name <name>, the run parameters when present (optional  *)
(* --user, --workdir, the extra arguments), one -v host:container:mode per *)
(* volume (rw when no mode), -p P:P per app port then per forward port in  *)
(* input order, and the image name or build tag last.                      *)
C7_PortText(p) == CASE p = 80 -> "80:80" [] p = 8080 -> "8080:8080"

C7_VolumeText(m) ==
    m.host \o ":" \o m.container \o ":" \o (IF m.mode = None THEN "rw" ELSE m.mode[1])

C7_Expected(c, ord) ==
    <<"docker", "run", "-d", "--name", c.name>>
    \o (IF c.run = None THEN <<>>
        ELSE (IF c.run[1].user = None THEN <<>> ELSE <<"--user", c.run[1].user[1]>>)
             \o <<"--workdir", c.run[1].workdir>> \o c.run[1].run_args)
    \o Interleave("-v", [i \in DOMAIN ord |-> C7_VolumeText(c.volumes[ord[i]])])
    \o (IF c.ports = None THEN <<>>
        ELSE LET all == c.ports[1].app \o c.ports[1].forward
             IN  Interleave("-p", [i \in DOMAIN all |-> C7_PortText(all[i])]))
    \o <<IF c.image # None THEN c.image[1].name ELSE c.build[1].name>>

C7_UpArgumentVector ==
    (Loaded /\ Sub = "up" /\ KindsSet(Config) \in {{"image"}, {"build"}} /\ Spawning)
        => /\ IsSome(cmd)
           /\ \E ord \in Orderings(Config.volumes) : Unwrap(cmd) = C7_Expected(Config, ord)
           /\ launched \in {<<>>, <<Unwrap(cmd)>>}
           /\ pc = "waiting" => Len(launched) = 1

C7_Witness ==
    /\ pc = "waiting" /\ Sub = "up"
    /\ KindsSet(Config) = {"build"}
    /\ Config.run # None /\ Config.run[1].user # None
    /\ Config.ports = Some([app |-> <<8080>>, forward |-> <<80>>])
    /\ DOMAIN Config.volumes = {"v1", "v2"}
    /\ Config.volumes["v1"].mode = None
    /\ Config.volumes["v2"].mode = Some("ro")
    /\ launched = <<<<"docker", "run", "-d", "--name", "dev", "--user", "dev",
                      "--workdir", "/w", "--rm",
                      "-v", "/h/v2:/c/v2:ro", "-v", "/h/v1:/c/v1:rw",
                      "-p", "8080:8080", "-p", "80:80", "tag">>>>

(* C8: two runs of build or up on the same configuration (exactly one      *)
(* kind set) and the same command line launch the identical argument       *)
(* vector, also when [build.args] or [volumes] has two or more entries.    *)
C8_SameVectorEveryRun ==
    (Loaded /\ Sub \in {"build", "up"} /\ Cardinality(KindsSet(Config)) = 1)
        => \A i \in DOMAIN history :
              (history[i] # <<>> /\ launched # <<>>) => launched = history[i]

(* C9: with exactly one kind set, build launches one invocation: pull      *)
(* <image>; or build -f <dockerfile> -t <tag>, --target <stage> when set,  *)
(* --build-arg K=V per entry of the mapping, context last; or compose,     *)
(* -f <file> per compose file in list order, build.                        *)
C9_Expected(c, ord) ==
    IF c.image # None THEN <<"docker", "pull", c.image[1].name>>
    ELSE IF c.build # None
    THEN LET b == c.build[1]
         IN  <<"docker", "build", "-f", b.dockerfile, "-t", b.name>>
             \o (IF b.target = None THEN <<>> ELSE <<"--target", b.target[1]>>)
             \o Interleave("--build-arg", [i \in DOMAIN ord |-> ord[i] \o "=" \o b.args[ord[i]]])
             \o <<b.context>>
    ELSE <<"docker", "compose">> \o Interleave("-f", c.compose[1].files) \o <<"build">>

C9_BuildArgs(c) == IF c.build # None THEN c.build[1].args ELSE << >>

C9_BuildArgumentVector ==
    (Loaded /\ Sub = "build" /\ Cardinality(KindsSet(Config)) = 1 /\ Spawning)
        => /\ IsSome(cmd)
           /\ \E ord \in Orderings(C9_BuildArgs(Config)) :
                 Unwrap(cmd) = C9_Expected(Config, ord)
           /\ launched \in {<<>>, <<Unwrap(cmd)>>}
           /\ pc = "waiting" => Len(launched) = 1

C9_Witness ==
    /\ pc = "waiting" /\ Sub = "build"
    /\ KindsSet(Config) = {"build"}
    /\ launched = <<<<"docker", "build", "-f", "Dockerfile", "-t", "tag",
                      "--target", "dev", "--build-arg", "K2=1",
                      "--build-arg", "K1=1", ".">>>>

(* C10: exec, stop and down check no kind cardinality: they take the       *)
(* compose form whenever [compose] is set, also next to [image] or         *)
(* [build], and otherwise the single-container form on the configured      *)
(* name, also with no kind set; one invocation each, except exec on a      *)
(* compose configuration without a service.                                *)
C10_Expected(sub, c, trailing) ==
    LET tail == IF Len(trailing) = 0 THEN <<"sh">> ELSE trailing
    IN  IF c.compose # None
        THEN <<"docker", "compose">> \o Interleave("-f", c.compose[1].files)
             \o (CASE sub = "stop" -> <<"stop">>
                   [] sub = "down" -> <<"down">>
                   [] sub = "exec" -> <<"exec", "-it">> \o c.compose[1].service \o tail)
        ELSE CASE sub = "stop" -> <<"docker", "stop", c.name>>
               [] sub = "down" -> <<"docker", "rm", "-f", c.name>>
               [] sub = "exec" -> <<"docker", "exec", "-it", c.name>> \o tail

C10_NoCardinalityCheck ==
    (Loaded /\ Sub \in {"exec", "stop", "down"}
       /\ ~(Sub = "exec" /\ Config.compose # None /\ Config.compose[1].service = None))
        => /\ pc \in {"dispatch", "waiting", "exited"}
           /\ Spawning
                => /\ cmd = Some(C10_Expected(Sub, Config, SubSeq(args, 3, Len(args))))
                   /\ launched \in {<<>>, <<Unwrap(cmd)>>}
                   /\ Exited /\ launched = <<>> => status = Some(Err("spawn"))
           /\ pc = "waiting" => Len(launched) = 1

C10_Witness ==
    /\ pc = "waiting" /\ Sub = "stop"
    /\ KindsSet(Config) = {"image", "build", "compose"}
    /\ launched = <<<<"docker", "compose", "-f", "f1.yml", "-f", "f2.yml", "stop">>>>

C10_WitnessNoKind ==
    /\ pc = "waiting" /\ Sub = "down"
    /\ KindsSet(Config) = {}
    /\ launched = <<<<"docker", "rm", "-f", "dev">>>>

====
